---- MODULE Spec2Model ----
(***************************************************************************)
(* Head-tracked off-axis projection (src/script.js).                       *)
(*                                                                         *)
(* The page is a single-threaded event loop: every handler runs to         *)
(* completion.  A handler that the claims look inside (animate) is split   *)
(* into its statements; while it executes no other handler is enabled.     *)
(* JavaScript numbers are modelled as exact rationals <<n, d>>, d > 0, in  *)
(* lowest terms.                                                           *)
(***************************************************************************)
EXTENDS Integers, Sequences, FiniteSets, TLC

VARIABLES
    initPc,          \* position of the async function init()
    SCREEN_WIDTH,    \* let SCREEN_WIDTH
    SCREEN_HEIGHT,   \* let SCREEN_HEIGHT
    innerWidth,      \* window.innerWidth
    innerHeight,     \* window.innerHeight
    rendererSize,    \* last renderer.setSize(w, h), <<0, 0>> before the first
    resizeListener,  \* window 'resize' listener registered
    modelMesh,       \* modelMesh is set (the MMD model loaded)
    faceLandmarker,  \* faceLandmarker is set
    video,           \* [elem, stream, paused, ended, currentTime]
    lastVideoTime,   \* let lastVideoTime
    headX, headY, headZ,
    camera,          \* [created, pos, identity, frustum]
    animIdx,         \* 0: animate is not executing; i: about to run AnimateOrder[i]
    rafPending,      \* frame callbacks requested and not yet run
    rendered,        \* what the last renderer.render call was given
    lastDetect,      \* outcome of the last predictWebcam call
    lastResults,     \* what detectForVideo returned in that call
    lastTarget,      \* the (targetX, targetY) computed in that call
    op               \* the handler or statement that made the last step

vars == <<initPc, SCREEN_WIDTH, SCREEN_HEIGHT, innerWidth, innerHeight,
          rendererSize, resizeListener, modelMesh, faceLandmarker, video,
          lastVideoTime, headX, headY, headZ, camera, animIdx, rafPending,
          rendered, lastDetect, lastResults, lastTarget, op>>

----------------------------------------------------------------------------
(* Bounds of the model *)

\* video.currentTime advances in ticks 0 .. MaxVideoTime
MaxVideoTime == 2

----------------------------------------------------------------------------
(* Exact rational arithmetic *)

RECURSIVE GCD(_, _)
GCD(a, b) == IF b = 0 THEN a ELSE GCD(b, a % b)

IAbs(n) == IF n < 0 THEN -n ELSE n

LCM(a, b) == (a \div GCD(a, b)) * b

RNorm(n, d) ==
    LET s == IF d < 0 THEN -1 ELSE 1
        g == GCD(IAbs(n), IAbs(d))
    IN  <<(s * n) \div g, (s * d) \div g>>

R(n) == <<n, 1>>
RAdd(a, b) ==
    LET l == LCM(a[2], b[2])
    IN  RNorm(a[1] * (l \div a[2]) + b[1] * (l \div b[2]), l)
RNeg(a) == <<-a[1], a[2]>>
RSub(a, b) == RAdd(a, RNeg(b))
RMul(a, b) ==
    LET g1 == GCD(IAbs(a[1]), b[2])
        g2 == GCD(IAbs(b[1]), a[2])
        h1 == IF g1 = 0 THEN 1 ELSE g1
        h2 == IF g2 = 0 THEN 1 ELSE g2
    IN  RNorm((a[1] \div h1) * (b[1] \div h2), (a[2] \div h2) * (b[2] \div h1))
RDiv(a, b) == RMul(a, RNorm(b[2], b[1]))
RLess(a, b) ==
    LET l == LCM(a[2], b[2])
    IN  a[1] * (l \div a[2]) < b[1] * (l \div b[2])
RLeq(a, b) == a = b \/ RLess(a, b)
RAbs(a) == <<IAbs(a[1]), a[2]>>

Zero == R(0)
Half == <<1, 2>>

----------------------------------------------------------------------------
(* Program constants *)

PARALLAX_SCALE == 50
InitialScreenWidth == 40
InitialScreenHeight == <<45, 2>>
InitialHeadZ == 30
InitialLastVideoTime == -1
SmoothingFactor == <<3, 20>>
Near == <<1, 10>>
Far == 1000

----------------------------------------------------------------------------
(* Inputs *)

\* window.innerWidth x window.innerHeight, both positive
Viewports == {<<16, 9>>, <<4, 3>>, <<9, 16>>}

\* A detected face: the landmark the code reads (index 1, the nose tip) and the
\* two eye-corner landmarks, in normalized [0,1]^2 coordinates.
Faces ==
    { [nose |-> <<R(0), R(0)>>,
       eyeL |-> <<R(0), R(0)>>,       eyeR |-> <<<<1, 5>>, R(0)>>],
      [nose |-> <<<<7, 10>>, Half>>,
       eyeL |-> <<<<3, 5>>, Half>>,   eyeR |-> <<<<4, 5>>, Half>>],
      [nose |-> <<R(1), R(1)>>,
       eyeL |-> <<<<4, 5>>, R(1)>>,   eyeR |-> <<R(1), R(1)>>] }

\* What detectForVideo may return: faceLandmarks missing, empty, or one face
\* (numFaces: 1).
NoResults == [present |-> FALSE, faceLandmarks |-> <<>>]
DetectResults ==
    { NoResults, [present |-> TRUE, faceLandmarks |-> <<>>] }
    \cup { [present |-> TRUE, faceLandmarks |-> <<f>>] : f \in Faces }

----------------------------------------------------------------------------
(* Pure parts of the handlers *)

\* onWindowResize: SCREEN_WIDTH / (window.innerWidth / window.innerHeight)
ResizeHeightInverted(sw, w, h) == RMul(sw, RDiv(R(w), R(h)))
ResizeHeight(sw, w, h) == RDiv(sw, RDiv(R(w), R(h)))

\* predictWebcam: lastVideoTime === video.currentTime returns early
IsNewFrameAlways(last, cur) == TRUE
IsNewFrame(last, cur) == last # cur

\* predictWebcam: results.faceLandmarks && results.faceLandmarks.length > 0
HasFace(results) == results.present /\ Len(results.faceLandmarks) > 0

RawX(nose) == RMul(RSub(Half, nose[1]), R(2))
RawY(nose) == RMul(RSub(nose[2], Half), R(2))

TargetX(nose) == RMul(RawX(nose), R(PARALLAX_SCALE))
TargetY(nose) ==
    RMul(RMul(RNeg(RawY(nose)), R(PARALLAX_SCALE)), Half)

\* head += (target - head) * 0.15
Smooth(prev, target) == RAdd(prev, RMul(RSub(target, prev), SmoothingFactor))

\* The head after a detection: smoothed toward the target when a face was
\* found, untouched otherwise.
NextHeadRecenter(results, hx, hy) ==
    IF HasFace(results)
    THEN <<Smooth(hx, TargetX(results.faceLandmarks[1].nose)),
           Smooth(hy, TargetY(results.faceLandmarks[1].nose))>>
    ELSE <<Zero, Zero>>
NextHead(results, hx, hy) ==
    IF HasFace(results)
    THEN <<Smooth(hx, TargetX(results.faceLandmarks[1].nose)),
           Smooth(hy, TargetY(results.faceLandmarks[1].nose))>>
    ELSE <<hx, hy>>

\* predictWebcam requests no frame callback of its own
PredictWebcamRafRecursive(pending) == pending + 1
PredictWebcamRaf(pending) == pending

\* updateOffAxisCamera: camera.position.set(headX, headY, headZ)
CameraPositionCentered(hx, hy, hz) == <<Zero, Zero, hz>>
CameraPosition(hx, hy, hz) == <<hx, hy, hz>>

\* updateOffAxisCamera: the frustum handed to makePerspective
FrustumOfCollapsed(pos, sw, sh) ==
    LET scale == RDiv(Near, RAbs(pos[3]))
        hw == RDiv(sw, R(2))
        hh == RDiv(sh, R(2))
    IN  [left   |-> RMul(RSub(hw, pos[1]), scale),
         right  |-> RMul(RSub(hw, pos[1]), scale),
         top    |-> RMul(RSub(hh, pos[2]), scale),
         bottom |-> RMul(RSub(RNeg(hh), pos[2]), scale),
         near   |-> Near,
         far    |-> R(Far)]
FrustumOf(pos, sw, sh) ==
    LET scale == RDiv(Near, RAbs(pos[3]))
        hw == RDiv(sw, R(2))
        hh == RDiv(sh, R(2))
    IN  [left   |-> RMul(RSub(RNeg(hw), pos[1]), scale),
         right  |-> RMul(RSub(hw, pos[1]), scale),
         top    |-> RMul(RSub(hh, pos[2]), scale),
         bottom |-> RMul(RSub(RNeg(hh), pos[2]), scale),
         near   |-> Near,
         far    |-> R(Far)]

\* animate: the order of its statements
AnimateOrder ==
    <<"updateOffAxisCamera", "render", "predictWebcam", "requestAnimationFrame">>

CurStep == IF animIdx = 0 THEN "idle" ELSE AnimateOrder[animIdx]
NextIdx == IF animIdx = Len(AnimateOrder) THEN 0 ELSE animIdx + 1

\* No handler is executing: the event loop may dispatch the next event.
Idle == animIdx = 0 /\ initPc # "callAnimate"

NoFrustum ==
    [left |-> Zero, right |-> Zero, top |-> Zero, bottom |-> Zero,
     near |-> Zero, far |-> Zero]
NoTarget == <<Zero, Zero>>

----------------------------------------------------------------------------
(* State after the module's top-level declarations, before init() *)

Init ==
    /\ initPc = "start"
    /\ SCREEN_WIDTH = R(InitialScreenWidth)
    /\ SCREEN_HEIGHT = InitialScreenHeight
    /\ \E v \in Viewports : innerWidth = v[1] /\ innerHeight = v[2]
    /\ rendererSize = <<0, 0>>
    /\ resizeListener = FALSE
    /\ modelMesh = FALSE
    /\ faceLandmarker = FALSE
    /\ video = [elem |-> FALSE, stream |-> FALSE, paused |-> TRUE,
                ended |-> FALSE, currentTime |-> 0]
    /\ lastVideoTime = InitialLastVideoTime
    /\ headX = Zero
    /\ headY = Zero
    /\ headZ = R(InitialHeadZ)
    /\ camera = [created |-> FALSE, pos |-> <<Zero, Zero, Zero>>,
                 identity |-> TRUE, frustum |-> NoFrustum]
    /\ animIdx = 0
    /\ rafPending = 0
    /\ rendered = [valid |-> FALSE, pos |-> <<Zero, Zero, Zero>>,
                   frustum |-> NoFrustum]
    /\ lastDetect = "none"
    /\ lastResults = NoResults
    /\ lastTarget = NoTarget
    /\ op = "none"

----------------------------------------------------------------------------
(* Handlers *)

\* The body of onWindowResize, as a relation on the variables it writes.
OnWindowResizeBody(w, h) ==
    /\ rendererSize' = <<w, h>>
    /\ SCREEN_HEIGHT' = ResizeHeight(SCREEN_WIDTH, w, h)
    /\ UNCHANGED SCREEN_WIDTH

\* init() up to its first suspension: setupThreeJS (which calls
\* onWindowResize and registers the listener), createEnvironment, and the
\* start of loadModel.
InitStart ==
    /\ initPc = "start"
    /\ camera' = [camera EXCEPT !.created = TRUE,
                                !.pos = <<Zero, Zero, headZ>>]
    /\ OnWindowResizeBody(innerWidth, innerHeight)
    /\ resizeListener' = TRUE
    /\ initPc' = "awaitModel"
    /\ op' = "setupThreeJS"
    /\ UNCHANGED <<innerWidth, innerHeight, modelMesh, faceLandmarker, video,
                   lastVideoTime, headX, headY, headZ, animIdx, rafPending,
                   rendered, lastDetect, lastResults, lastTarget>>

\* loadModel settles (a load error is caught and logged); setupTracking
\* starts and suspends on FilesetResolver.forVisionTasks.
LoadModelSettled ==
    /\ initPc = "awaitModel"
    /\ Idle
    /\ \E ok \in BOOLEAN : modelMesh' = ok
    /\ video' = [video EXCEPT !.elem = TRUE]
    /\ initPc' = "awaitFileset"
    /\ op' = "loadModel"
    /\ UNCHANGED <<SCREEN_WIDTH, SCREEN_HEIGHT, innerWidth, innerHeight,
                   rendererSize, resizeListener, faceLandmarker,
                   lastVideoTime, headX, headY, headZ, camera, animIdx,
                   rafPending, rendered, lastDetect, lastResults, lastTarget>>

\* FilesetResolver.forVisionTasks settles; a rejection is not caught, so it
\* rejects setupTracking and init.
FilesetSettled ==
    /\ initPc = "awaitFileset"
    /\ Idle
    /\ \E ok \in BOOLEAN :
          initPc' = IF ok THEN "awaitLandmarker" ELSE "rejected"
    /\ op' = "forVisionTasks"
    /\ UNCHANGED <<SCREEN_WIDTH, SCREEN_HEIGHT, innerWidth, innerHeight,
                   rendererSize, resizeListener, modelMesh, faceLandmarker,
                   video, lastVideoTime, headX, headY, headZ, camera, animIdx,
                   rafPending, rendered, lastDetect, lastResults, lastTarget>>

\* FaceLandmarker.createFromOptions settles; a rejection is not caught.
LandmarkerSettled ==
    /\ initPc = "awaitLandmarker"
    /\ Idle
    /\ \E ok \in BOOLEAN :
          /\ faceLandmarker' = ok
          /\ initPc' = IF ok THEN "awaitCamera" ELSE "rejected"
    /\ op' = "createFromOptions"
    /\ UNCHANGED <<SCREEN_WIDTH, SCREEN_HEIGHT, innerWidth, innerHeight,
                   rendererSize, resizeListener, modelMesh, video,
                   lastVideoTime, headX, headY, headZ, camera, animIdx,
                   rafPending, rendered, lastDetect, lastResults, lastTarget>>

\* getUserMedia settles: the stream is attached, or the rejection is caught.
\* Either way setupTracking returns and init goes on to call animate().
CameraSettled ==
    /\ initPc = "awaitCamera"
    /\ Idle
    /\ \E ok \in BOOLEAN : video' = [video EXCEPT !.stream = ok]
    /\ initPc' = "callAnimate"
    /\ op' = "getUserMedia"
    /\ UNCHANGED <<SCREEN_WIDTH, SCREEN_HEIGHT, innerWidth, innerHeight,
                   rendererSize, resizeListener, modelMesh, faceLandmarker,
                   lastVideoTime, headX, headY, headZ, camera, animIdx,
                   rafPending, rendered, lastDetect, lastResults, lastTarget>>

\* animate is entered: called by init, or run as a frame callback.
AnimateEnter ==
    /\ animIdx = 0
    /\ \/ /\ initPc = "callAnimate"
          /\ initPc' = "done"
          /\ UNCHANGED rafPending
       \/ /\ initPc # "callAnimate"
          /\ rafPending > 0
          /\ rafPending' = rafPending - 1
          /\ UNCHANGED initPc
    /\ animIdx' = 1
    /\ op' = "animate"
    /\ UNCHANGED <<SCREEN_WIDTH, SCREEN_HEIGHT, innerWidth, innerHeight,
                   rendererSize, resizeListener, modelMesh, faceLandmarker,
                   video, lastVideoTime, headX, headY, headZ, camera,
                   rendered, lastDetect, lastResults, lastTarget>>

UpdateOffAxisCamera ==
    /\ CurStep = "updateOffAxisCamera"
    /\ LET pos == CameraPosition(headX, headY, headZ)
       IN  camera' = [camera EXCEPT
                        !.pos = pos,
                        !.identity = TRUE,
                        !.frustum = FrustumOf(pos, SCREEN_WIDTH, SCREEN_HEIGHT)]
    /\ animIdx' = NextIdx
    /\ op' = "updateOffAxisCamera"
    /\ UNCHANGED <<initPc, SCREEN_WIDTH, SCREEN_HEIGHT, innerWidth,
                   innerHeight, rendererSize, resizeListener, modelMesh,
                   faceLandmarker, video, lastVideoTime, headX, headY, headZ,
                   rafPending, rendered, lastDetect, lastResults, lastTarget>>

\* renderer.render(scene, camera)
Render ==
    /\ CurStep = "render"
    /\ rendered' = [valid |-> TRUE, pos |-> camera.pos,
                    frustum |-> camera.frustum]
    /\ animIdx' = NextIdx
    /\ op' = "render"
    /\ UNCHANGED <<initPc, SCREEN_WIDTH, SCREEN_HEIGHT, innerWidth,
                   innerHeight, rendererSize, resizeListener, modelMesh,
                   faceLandmarker, video, lastVideoTime, headX, headY, headZ,
                   camera, rafPending, lastDetect, lastResults, lastTarget>>

PredictWebcam ==
    /\ CurStep = "predictWebcam"
    /\ animIdx' = NextIdx
    /\ op' = "predictWebcam"
    /\ rafPending' = PredictWebcamRaf(rafPending)
    /\ IF ~faceLandmarker \/ ~video.elem \/ video.paused \/ video.ended
       THEN /\ lastDetect' = "skipped"
            /\ lastResults' = NoResults
            /\ lastTarget' = NoTarget
            /\ UNCHANGED <<lastVideoTime, headX, headY>>
       ELSE IF ~IsNewFrame(lastVideoTime, video.currentTime)
       THEN /\ lastDetect' = "duplicate"
            /\ lastResults' = NoResults
            /\ lastTarget' = NoTarget
            /\ UNCHANGED <<lastVideoTime, headX, headY>>
       ELSE \E results \in DetectResults :
            /\ lastVideoTime' = video.currentTime
            /\ lastResults' = results
            /\ lastDetect' = IF HasFace(results) THEN "face" ELSE "noface"
            /\ lastTarget' =
                 IF HasFace(results)
                 THEN <<TargetX(results.faceLandmarks[1].nose),
                        TargetY(results.faceLandmarks[1].nose)>>
                 ELSE NoTarget
            /\ LET h == NextHead(results, headX, headY)
               IN  headX' = h[1] /\ headY' = h[2]
    /\ UNCHANGED <<initPc, SCREEN_WIDTH, SCREEN_HEIGHT, innerWidth,
                   innerHeight, rendererSize, resizeListener, modelMesh,
                   faceLandmarker, video, headZ, camera, rendered>>

\* requestAnimationFrame(animate)
RequestAnimationFrame ==
    /\ CurStep = "requestAnimationFrame"
    /\ rafPending' = rafPending + 1
    /\ animIdx' = NextIdx
    /\ op' = "requestAnimationFrame"
    /\ UNCHANGED <<initPc, SCREEN_WIDTH, SCREEN_HEIGHT, innerWidth,
                   innerHeight, rendererSize, resizeListener, modelMesh,
                   faceLandmarker, video, lastVideoTime, headX, headY, headZ,
                   camera, rendered, lastDetect, lastResults, lastTarget>>

\* The viewport changes size and the 'resize' event runs onWindowResize.
OnWindowResize ==
    /\ Idle
    /\ resizeListener
    /\ \E v \in Viewports :
          /\ <<innerWidth, innerHeight>> # v
          /\ innerWidth' = v[1]
          /\ innerHeight' = v[2]
          /\ OnWindowResizeBody(v[1], v[2])
    /\ op' = "onWindowResize"
    /\ UNCHANGED <<initPc, resizeListener, modelMesh, faceLandmarker, video,
                   lastVideoTime, headX, headY, headZ, camera, animIdx,
                   rafPending, rendered, lastDetect, lastResults, lastTarget>>

\* The webcam element: it plays only once a stream is attached; its
\* currentTime never goes back.
VideoPlay ==
    /\ Idle
    /\ video.stream /\ video.paused /\ ~video.ended
    /\ video' = [video EXCEPT !.paused = FALSE]
    /\ op' = "video.play"
    /\ UNCHANGED <<initPc, SCREEN_WIDTH, SCREEN_HEIGHT, innerWidth,
                   innerHeight, rendererSize, resizeListener, modelMesh,
                   faceLandmarker, lastVideoTime, headX, headY, headZ, camera,
                   animIdx, rafPending, rendered, lastDetect, lastResults,
                   lastTarget>>

VideoPause ==
    /\ Idle
    /\ video.stream /\ ~video.paused
    /\ video' = [video EXCEPT !.paused = TRUE]
    /\ op' = "video.pause"
    /\ UNCHANGED <<initPc, SCREEN_WIDTH, SCREEN_HEIGHT, innerWidth,
                   innerHeight, rendererSize, resizeListener, modelMesh,
                   faceLandmarker, lastVideoTime, headX, headY, headZ, camera,
                   animIdx, rafPending, rendered, lastDetect, lastResults,
                   lastTarget>>

VideoEnded ==
    /\ Idle
    /\ video.stream /\ ~video.ended
    /\ video' = [video EXCEPT !.ended = TRUE]
    /\ op' = "video.ended"
    /\ UNCHANGED <<initPc, SCREEN_WIDTH, SCREEN_HEIGHT, innerWidth,
                   innerHeight, rendererSize, resizeListener, modelMesh,
                   faceLandmarker, lastVideoTime, headX, headY, headZ, camera,
                   animIdx, rafPending, rendered, lastDetect, lastResults,
                   lastTarget>>

VideoFrame ==
    /\ Idle
    /\ video.stream /\ ~video.paused /\ ~video.ended
    /\ video.currentTime < MaxVideoTime
    /\ video' = [video EXCEPT !.currentTime = @ + 1]
    /\ op' = "video.frame"
    /\ UNCHANGED <<initPc, SCREEN_WIDTH, SCREEN_HEIGHT, innerWidth,
                   innerHeight, rendererSize, resizeListener, modelMesh,
                   faceLandmarker, lastVideoTime, headX, headY, headZ, camera,
                   animIdx, rafPending, rendered, lastDetect, lastResults,
                   lastTarget>>

Next ==
    \/ InitStart
    \/ LoadModelSettled
    \/ FilesetSettled
    \/ LandmarkerSettled
    \/ CameraSettled
    \/ AnimateEnter
    \/ UpdateOffAxisCamera
    \/ Render
    \/ PredictWebcam
    \/ RequestAnimationFrame
    \/ OnWindowResize
    \/ VideoPlay
    \/ VideoPause
    \/ VideoEnded
    \/ VideoFrame

Spec == Init /\ [][Next]_vars

----------------------------------------------------------------------------
(* Claims *)

HeadPos == <<headX, headY, headZ>>
HalfWidth == RDiv(SCREEN_WIDTH, R(2))
HalfHeight == RDiv(SCREEN_HEIGHT, R(2))
ClampFraction == <<9, 20>>
ComfortFactor == <<6, 5>>
Detected == lastDetect \in {"face", "noface"}
Nose == lastResults.faceLandmarks[1].nose
EyeMid ==
    LET f == lastResults.faceLandmarks[1]
    IN  <<RMul(RAdd(f.eyeL[1], f.eyeR[1]), Half),
          RMul(RAdd(f.eyeL[2], f.eyeR[2]), Half)>>
\* animate callbacks pending or executing
LoopCount ==
    rafPending + (IF animIdx # 0 \/ initPc = "callAnimate" THEN 1 ELSE 0)
\* init has ended, by returning or by rejecting
InitEnded == initPc \in {"done", "rejected"}
ModelLoadFailed == initPc = "rejected"
CameraDenied == initPc \in {"callAnimate", "done"} /\ ~video.stream

\* C1: when tracking is unavailable (the camera is denied, or the
\* face-landmark model fails to load), init still reaches the render loop
\* (it never ends without animate having been called) and the head stays at
\* its initial position (0, 0).
C1_TrackingUnavailableStillRenders ==
    (ModelLoadFailed \/ CameraDenied)
        => /\ initPc # "rejected"
           /\ headX = Zero /\ headY = Zero

\* C2: in every state the head is within 45% of the virtual screen's
\* half-extents on each axis: |headX| <= 0.45 * SCREEN_WIDTH/2 and
\* |headY| <= 0.45 * SCREEN_HEIGHT/2.
C2_ClampedToScreen ==
    /\ RLeq(RAbs(headX), RMul(ClampFraction, HalfWidth))
    /\ RLeq(RAbs(headY), RMul(ClampFraction, HalfHeight))

\* C3: the tracking step runs before the projection and the render call, so
\* once a cycle has run its tracking step, the frame that cycle rendered was
\* built from the head that includes that cycle's detection.
C3_RenderIncludesSameCycleDetection ==
    (CurStep = "requestAnimationFrame" /\ rendered.valid)
        => /\ rendered.pos = HeadPos
           /\ rendered.frustum = FrustumOf(HeadPos, SCREEN_WIDTH, SCREEN_HEIGHT)

\* C4: a tracking step that processes a new frame in which no face is found
\* leaves headX, headY and headZ unchanged.
C4_NoFaceHoldsHead ==
    [][ (CurStep = "predictWebcam" /\ animIdx' # animIdx
            /\ lastDetect' = "noface")
            => /\ headX' = headX /\ headY' = headY /\ headZ' = headZ
               /\ ~HasFace(lastResults') ]_vars

\* a no-face frame has been processed while the head was off centre
C4_Witness ==
    /\ lastDetect = "noface"
    /\ headX # Zero
    /\ lastVideoTime = MaxVideoTime

\* C5: a tracking step run while the video timestamp equals lastVideoTime
\* calls no detection and leaves the head unchanged; detection runs only
\* when the timestamp is strictly greater than lastVideoTime; lastVideoTime
\* never decreases.
C5_Dedup ==
    [][ /\ lastVideoTime' >= lastVideoTime
        /\ (CurStep = "predictWebcam" /\ animIdx' # animIdx)
            => /\ video.currentTime = lastVideoTime
                   => /\ lastDetect' \notin {"face", "noface"}
                      /\ headX' = headX /\ headY' = headY
                      /\ lastVideoTime' = lastVideoTime
               /\ lastDetect' \in {"face", "noface"}
                   => /\ video.currentTime > lastVideoTime
                      /\ lastVideoTime' = video.currentTime ]_vars

\* a tracking step was skipped as a duplicate with the head off centre
C5_Witness ==
    /\ lastDetect = "duplicate"
    /\ lastVideoTime = video.currentTime
    /\ headX # Zero

\* C6: the raw target is the eye-corner midpoint, centred and
\* mirrored, scaled by the screen half-extents and the comfort factor 1.2.
C6_TargetFromEyeMidpoint ==
    lastDetect = "face"
        => lastTarget =
             <<RMul(RMul(RMul(RSub(Half, EyeMid[1]), R(2)), HalfWidth),
                    ComfortFactor),
               RMul(RMul(RNeg(RMul(RSub(EyeMid[2], Half), R(2))), HalfHeight),
                    ComfortFactor)>>

C8_FrustumNonDegenerate ==
    /\ CurStep = "render" => camera.frustum # NoFrustum
    /\ camera.frustum # NoFrustum
        => /\ RLess(camera.frustum.left, camera.frustum.right)
           /\ RLess(camera.frustum.bottom, camera.frustum.top)
    /\ rendered.valid
        => /\ RLess(rendered.frustum.left, rendered.frustum.right)
           /\ RLess(rendered.frustum.bottom, rendered.frustum.top)

\* a frame was rendered with the head beyond 45% of the half-width, on a
\* resized screen
C8_Witness ==
    /\ rendered.valid
    /\ RLess(RMul(ClampFraction, HalfWidth), RAbs(rendered.pos[1]))
    /\ SCREEN_HEIGHT # InitialScreenHeight

\* C9: at most one animate callback is pending or executing; a frame
\* callback is requested only by the last statement of animate, one per
\* cycle; the tracking step requests none.
C9_SingleLoop ==
    [][ /\ LoopCount' <= 1
        /\ rafPending' > rafPending
            => /\ CurStep = "requestAnimationFrame"
               /\ rafPending' = rafPending + 1
               /\ rendered.valid
               /\ animIdx' = 0
        /\ CurStep = "predictWebcam" => rafPending' = rafPending ]_vars

\* a second cycle is pending after one that ran a detection
C9_Witness ==
    /\ rafPending = 1
    /\ animIdx = 0
    /\ rendered.valid
    /\ lastDetect = "face"

\* C10: headZ keeps its initial value 30; when the render call is made the
\* camera is at (headX, headY, headZ) with identity rotation, at a strictly
\* positive distance from the screen plane.
C10_CameraAtHead ==
    /\ headZ = R(InitialHeadZ)
    /\ CurStep = "render"
        => /\ camera.pos = HeadPos
           /\ camera.identity
           /\ RLess(Zero, RAbs(camera.pos[3]))
    /\ rendered.valid => rendered.pos[3] = R(InitialHeadZ)

\* a frame is about to be rendered with the head off centre
C10_Witness ==
    /\ CurStep = "render"
    /\ headX # Zero
    /\ headY # Zero

====
